---- MODULE Spec2Model ----
(***************************************************************************)
(* Model of the distinct_until_changed operator of rxcpp v2                *)
(* (Rx/v2/src/rxcpp/operators/rx-distinct_until_changed.hpp), of the       *)
(* maybe<T> slot it keeps its state in (Rx/v2/src/rxcpp/rx-util.hpp) and   *)
(* of the fluent Binder of rxcpp v1 (Rx/CPP/src/cpprx/rx.hpp).             *)
(*                                                                         *)
(* An activation is one distinct_until_changed_observer together with the  *)
(* downstream observer it was made for.  The source is the environment:    *)
(* it calls on_next / on_error / on_completed on the observer in any       *)
(* order (the observer itself has no guard), and the downstream observer   *)
(* records every notification it receives.                                 *)
(***************************************************************************)
EXTENDS Integers, Sequences, FiniteSets, TLC

\* ---------------------------------------------------------------- bounds
NumValues == 2          \* item values are 1..NumValues
NumErrors == 2          \* exception_ptr identities are 1..NumErrors
NumActivations == 2     \* observers made from the same operator
MaxCalls == 3           \* calls the sources make, over all activations
MaxDedupLen == 7        \* on_next calls of the single-activation run
NumDedupValues == 3     \* item values of the single-activation run
MaxBinders == 4         \* Binder objects built, the first one included
MaxTerminals == 2       \* subscribe / for_each calls
MaxTake == 1            \* counts passed to take
NumSourceItems == 2     \* the source emits 1, 1, 2, 2, .. NumSourceItems
MaxDestCalls == 2       \* calls on the observer whose downstream misbehaves
NumBoxes == 2           \* maybe objects handled on their own
MaxReads == 2           \* reads made of those maybe objects
MaxArgs == 3            \* arguments passed to resolve_arg
NumArgValues == 2       \* argument values are 1..NumArgValues
NumUnwinders == 3       \* unwinder objects declared
MaxDismissals == 2      \* dismiss() calls made on one unwinder

Values == 1..NumValues
Errors == 1..NumErrors
Activations == 1..NumActivations

\* ------------------------------------------------- maybe<T> (rx-util.hpp)
\* storage is raw aligned_storage: indeterminate until a T is constructed
\* in it, zero-filled by reset().
Uninit == -1
Zeroed == 0

VARIABLES
    lifetime,     \* per activation: "none", "live" or "destroyed"
    remembered,   \* per activation: the maybe<source_value_type> member
    dest,         \* per activation: notifications the downstream received
    calls,        \* per activation: calls the source made, with outcome
    aborted,      \* abort() was called
    disposed,     \* per activation: the downstream subscription is disposed
    consumer,     \* per activation: notifications that reached the consumer
    binders,      \* the Binder objects built so far, in order of creation
    invoked,      \* invocations of user predicates and selectors so far
    subscribed,   \* subscriptions made to the source so far
    terminals,    \* subscribe / for_each calls so far
    received,     \* items the onNext of the latest terminal call received
    boxes,        \* maybe objects handled on their own
    held,         \* per box: the value it was last given, 0 when none
    reads,        \* the reads made of the boxes, with what they returned
    args,         \* the arguments passed to resolve_arg
    arg_predicate, \* the Predicate resolve_arg is instantiated with
    resolved,     \* what resolve_arg returned
    resolved_slots, \* what the six-slot resolve_arg returned
    box_op,       \* the latest operation on a box, with the boxes before it
    unwinder,     \* per unwinder: "none", "live" or "destroyed"
    function,     \* per unwinder: the Function* member is not null
    ran,          \* per unwinder: the times its function was run
    dismissals    \* per unwinder: the dismiss() calls made on it

observerVars ==
    <<lifetime, remembered, dest, calls, aborted, disposed, consumer>>
binderVars == <<binders, invoked, subscribed, terminals, received>>
unwindVars == <<unwinder, function, ran, dismissals>>
utilVars == <<boxes, held, reads, args, arg_predicate, resolved,
              resolved_slots, box_op, unwinder, function, ran, dismissals>>
vars == <<lifetime, remembered, dest, calls, aborted, disposed, consumer,
          binders, invoked, subscribed, terminals, received,
          boxes, held, reads, args, arg_predicate, resolved,
          resolved_slots, box_op, unwinder, function, ran, dismissals>>

\* maybe::maybe()
maybe == [is_set |-> FALSE, storage |-> Uninit]

\* maybe::empty
empty(m) == ~m.is_set

\* maybe::size
size(m) == IF m.is_set THEN 1 ELSE 0

\* maybe::reset()
reset(m) ==
    IF m.is_set THEN [is_set |-> FALSE, storage |-> Zeroed] ELSE m

\* reset(U&&) that constructs the value and leaves is_set as reset() set it
reset_value_unset(m, v) == [reset(m) EXCEPT !.storage = v]

\* maybe::reset(U&&): reset(), then construct T(value) in the storage
reset_value(m, v) == [reset(m) EXCEPT !.storage = v, !.is_set = TRUE]

\* value() without the is_set test
value_aborts_unchecked(m) == FALSE

\* maybe::value: aborts when nothing is stored
value_aborts(m) == ~m.is_set
value(m) == m.storage

\* maybe::get, as on_next calls it (v != remembered.get()): the accessor of
\* the stored value.  rx-util.hpp declares no get in maybe; it is read here
\* as value().
get_aborts(m) == value_aborts(m)
get(m) == value(m)

\* --------------------------------------------------------- notifications
Next_(v) == [op |-> "on_next", val |-> v]
Error_(e) == [op |-> "on_error", val |-> e]
Completed_ == [op |-> "on_completed", val |-> 0]

\* what one call on the observer did: the slot afterwards, the calls made
\* on dest in order, whether the item comparison was evaluated and threw,
\* and how the call ended ("returned", "raised": an exception left the
\* call, "aborted": the process was aborted)
\* what the downstream did when on_next was called on it: it returned,
\* it threw, or it called on_next(val) on this observer before returning
DestReturns == [does |-> "returns", val |-> 0]
DestRaises == [does |-> "raises", val |-> 0]
DestReenters(w) == [does |-> "reenters", val |-> w]
DestUncalled == [does |-> "uncalled", val |-> 0]
DestDoes == {DestReturns, DestRaises} \cup {DestReenters(w) : w \in Values}

ResultTo(m, sent, threw, outcome, did) ==
    [remembered |-> m, sent |-> sent, threw |-> threw, outcome |-> outcome,
     dest_did |-> did]

Result(m, sent, threw, outcome) ==
    ResultTo(m, sent, threw, outcome,
             IF sent = <<>> THEN DestUncalled ELSE DestReturns)

\* on_next without the comparison: every value is forwarded
on_next_result_uncompared(m, v, cmp_raises) ==
    Result(reset_value(m, v), <<Next_(v)>>, FALSE, "returned")

\* on_next that forwards a changed value without remembering it
on_next_result_unremembered(m, v, cmp_raises) ==
    IF empty(m)
    THEN Result(reset_value(m, v), <<Next_(v)>>, FALSE, "returned")
    ELSE IF cmp_raises
    THEN Result(m, <<>>, TRUE, "raised")
    ELSE IF v /= get(m)
    THEN Result(m, <<Next_(v)>>, FALSE, "returned")
    ELSE Result(m, <<>>, FALSE, "returned")

\* on_next that uses the first value only to fill the slot
on_next_result_primed(m, v, cmp_raises) ==
    IF empty(m)
    THEN Result(reset_value(m, v), <<>>, FALSE, "returned")
    ELSE IF cmp_raises
    THEN Result(m, <<>>, TRUE, "raised")
    ELSE IF v /= get(m)
    THEN Result(reset_value(m, v), <<Next_(v)>>, FALSE, "returned")
    ELSE Result(m, <<>>, FALSE, "returned")

\* on_next that compares before it tests the slot for emptiness
on_next_to_unguarded(m, v, cmp_raises, d) ==
    IF get_aborts(m)
    THEN Result(m, <<>>, FALSE, "aborted")
    ELSE IF cmp_raises
    THEN Result(m, <<>>, TRUE, "raised")
    ELSE IF v /= get(m) \/ empty(m)
    THEN ResultTo(reset_value(m, v), <<Next_(v)>>, FALSE, "returned", d)
    ELSE Result(m, <<>>, FALSE, "returned")

\* on_next that calls the downstream first and remembers the value after
\* the call has returned
on_next_to_late(m, v, cmp_raises, d) ==
    LET inner_forwards == empty(m) \/ d.val /= get(m)
        forward ==
            CASE d.does = "returns" ->
                   ResultTo(reset_value(m, v), <<Next_(v)>>, FALSE,
                            "returned", d)
              [] d.does = "raises" ->
                   ResultTo(m, <<Next_(v)>>, FALSE, "raised", d)
              [] d.does = "reenters" ->
                   ResultTo(reset_value(m, v),
                            IF inner_forwards
                            THEN <<Next_(v), Next_(d.val)>>
                            ELSE <<Next_(v)>>,
                            FALSE, "returned", d)
    IN IF empty(m)
       THEN forward
       ELSE IF cmp_raises
       THEN Result(m, <<>>, TRUE, "raised")
       ELSE IF v /= get(m)
       THEN forward
       ELSE Result(m, <<>>, FALSE, "returned")

\* on_next that overwrites the slot before it compares
on_next_to_store_first(m, v, cmp_raises, d) ==
    IF empty(m)
    THEN ResultTo(reset_value(m, v), <<Next_(v)>>, FALSE, "returned", d)
    ELSE IF cmp_raises
    THEN Result(reset_value(m, v), <<>>, TRUE, "raised")
    ELSE IF v /= get(m)
    THEN ResultTo(reset_value(m, v), <<Next_(v)>>, FALSE, "returned", d)
    ELSE Result(m, <<>>, FALSE, "returned")

RECURSIVE on_next_to(_, _, _, _)
\* distinct_until_changed_observer::on_next.  cmp_raises: the item type's
\* operator!= throws when it is evaluated for this item.  The comparison is
\* the right operand of ||, so it is evaluated only when the slot is set;
\* nothing in on_next catches what it throws.  d: what dest.on_next(v) does
\* when it is called; a re-entrant call runs on the slot as it is then.
on_next_to(m, v, cmp_raises, d) ==
    LET stored == reset_value(m, v)
        inner == on_next_to(stored, d.val, FALSE, DestReturns)
        forward ==
            CASE d.does = "returns" ->
                   ResultTo(stored, <<Next_(v)>>, FALSE, "returned", d)
              [] d.does = "raises" ->
                   ResultTo(stored, <<Next_(v)>>, FALSE, "raised", d)
              [] d.does = "reenters" ->
                   ResultTo(inner.remembered, <<Next_(v)>> \o inner.sent,
                            FALSE, "returned", d)
    IN IF empty(m)
       THEN forward
       ELSE IF get_aborts(m)
       THEN Result(m, <<>>, FALSE, "aborted")
       ELSE IF cmp_raises
       THEN Result(m, <<>>, TRUE, "raised")
       ELSE IF v /= get(m)
       THEN forward
       ELSE Result(m, <<>>, FALSE, "returned")

\* on_next with a downstream that returns
on_next_result(m, v, cmp_raises) == on_next_to(m, v, cmp_raises, DestReturns)

\* on_error that completes the downstream instead
on_error_result_completing(m, e) ==
    Result(m, <<Completed_>>, FALSE, "returned")

\* on_error that also completes the downstream
on_error_result_twice(m, e) ==
    Result(m, <<Error_(e), Completed_>>, FALSE, "returned")

\* distinct_until_changed_observer::on_error
on_error_result(m, e) == Result(m, <<Error_(e)>>, FALSE, "returned")

\* on_completed that clears the slot
on_completed_result_clearing(m) ==
    Result(reset(m), <<Completed_>>, FALSE, "returned")

\* on_completed that completes the downstream only after a value was seen
on_completed_result_nonempty(m) ==
    Result(m, IF empty(m) THEN <<>> ELSE <<Completed_>>, FALSE, "returned")

\* distinct_until_changed_observer::on_completed
on_completed_result(m) == Result(m, <<Completed_>>, FALSE, "returned")

Call(op, val, r) ==
    [op |-> op, val |-> val, threw |-> r.threw, outcome |-> r.outcome,
     sent |-> Len(r.sent), dest_did |-> r.dest_did]

\* a subscriber that does not look at its subscription
subscriber_forward_always(is_disposed, log, sent) == log \o sent

\* the downstream subscriber hands what it is sent to the consumer unless
\* its subscription is disposed
subscriber_forward(is_disposed, log, sent) ==
    IF is_disposed THEN log ELSE log \o sent

\* one call on an observer whose slot is a static shared by all observers
Deliver_shared(a, op, val, r) ==
    /\ lifetime[a] = "live"
    /\ ~aborted
    /\ remembered' = [b \in Activations |-> r.remembered]
    /\ dest' = [dest EXCEPT ![a] = dest[a] \o r.sent]
    /\ calls' = [calls EXCEPT ![a] = Append(calls[a], Call(op, val, r))]
    /\ aborted' = (r.outcome = "aborted")
    /\ consumer' = [consumer EXCEPT
                       ![a] = subscriber_forward(disposed[a], @, r.sent)]
    /\ UNCHANGED <<lifetime, disposed, binderVars, utilVars>>

\* one call on an observer that ignores every call after a terminal
Deliver_terminated(a, op, val, r) ==
    LET q == IF \E i \in 1..Len(calls[a]) :
                    calls[a][i].op \in {"on_error", "on_completed"}
             THEN Result(remembered[a], <<>>, FALSE, "returned")
             ELSE r
    IN /\ lifetime[a] = "live"
       /\ ~aborted
       /\ remembered' = [remembered EXCEPT ![a] = q.remembered]
       /\ dest' = [dest EXCEPT ![a] = dest[a] \o q.sent]
       /\ calls' = [calls EXCEPT ![a] = Append(calls[a], Call(op, val, q))]
       /\ aborted' = (q.outcome = "aborted")
       /\ consumer' = [consumer EXCEPT
                          ![a] = subscriber_forward(disposed[a], @, q.sent)]
       /\ UNCHANGED <<lifetime, disposed, binderVars, utilVars>>

\* one call of the source on the observer of activation a
Deliver(a, op, val, r) ==
    /\ lifetime[a] = "live"
    /\ ~aborted
    /\ remembered' = [remembered EXCEPT ![a] = r.remembered]
    /\ dest' = [dest EXCEPT ![a] = dest[a] \o r.sent]
    /\ calls' = [calls EXCEPT ![a] = Append(calls[a], Call(op, val, r))]
    /\ aborted' = (r.outcome = "aborted")
    /\ consumer' = [consumer EXCEPT
                       ![a] = subscriber_forward(disposed[a], @, r.sent)]
    /\ UNCHANGED <<lifetime, disposed, binderVars, utilVars>>

\* distinct_until_changed::operator() / distinct_until_changed_observer::make
make(a) ==
    /\ lifetime[a] = "none"
    /\ ~aborted
    /\ lifetime' = [lifetime EXCEPT ![a] = "live"]
    /\ remembered' = [remembered EXCEPT ![a] = maybe]
    /\ dest' = [dest EXCEPT ![a] = <<>>]
    /\ UNCHANGED <<calls, aborted, disposed, consumer, binderVars, utilVars>>

on_next(a, v, cmp_raises) ==
    Deliver(a, "on_next", v, on_next_result(remembered[a], v, cmp_raises))

on_error(a, e) ==
    Deliver(a, "on_error", e, on_error_result(remembered[a], e))

on_completed(a) ==
    Deliver(a, "on_completed", 0, on_completed_result(remembered[a]))

\* the observer is destroyed: ~maybe runs reset()
destroy(a) ==
    /\ lifetime[a] = "live"
    /\ ~aborted
    /\ lifetime' = [lifetime EXCEPT ![a] = "destroyed"]
    /\ remembered' = [remembered EXCEPT ![a] = reset(remembered[a])]
    /\ UNCHANGED <<dest, calls, aborted, disposed, consumer, binderVars,
                   utilVars>>

\* on_next on an observer whose downstream does d when it is called; a
\* disposed subscriber does not call the consumer, so nothing can throw
on_next_dest(a, v, cmp_raises, d) ==
    Deliver(a, "on_next", v,
            on_next_to(remembered[a], v, cmp_raises,
                       IF disposed[a] THEN DestReturns ELSE d))

\* the subscription of the downstream subscriber is disposed
dispose(a) ==
    /\ lifetime[a] = "live"
    /\ ~aborted
    /\ disposed' = [disposed EXCEPT ![a] = TRUE]
    /\ UNCHANGED <<lifetime, remembered, dest, calls, aborted, consumer,
                   binderVars, utilVars>>

RECURSIVE SumLen(_, _)
SumLen(f, n) == IF n = 0 THEN 0 ELSE Len(f[n]) + SumLen(f, n - 1)
TotalCalls == SumLen(calls, NumActivations)


\* ------------------------------------------------ maybe<T> on its own
Boxes == 1..NumBoxes

\* maybe::maybe(T value)
maybe_of(v) == [is_set |-> TRUE, storage |-> v]

\* maybe::operator* : aborts when nothing is stored
deref_aborts(m) == ~m.is_set
deref(m) == m.storage

\* maybe::operator-> : aborts when nothing is stored
arrow_aborts(m) == ~m.is_set
arrow(m) == m.storage

Accessors == {"value", "operator*", "operator->"}

\* a read of m through the accessor how
read_aborts(how, m) ==
    CASE how = "value" -> value_aborts(m)
      [] how = "operator*" -> deref_aborts(m)
      [] how = "operator->" -> arrow_aborts(m)

read_value(how, m) ==
    CASE how = "value" -> value(m)
      [] how = "operator*" -> deref(m)
      [] how = "operator->" -> arrow(m)

\* every box default-constructed
InitBoxes ==
    /\ boxes = [b \in Boxes |-> maybe]
    /\ held = [b \in Boxes |-> 0]
    /\ reads = <<>>
    /\ box_op = [op |-> "none", box |-> 0, other |-> 0, val |-> 0,
                 before |-> [b \in Boxes |-> maybe]]

\* box b is given the maybe m, which holds h (0: nothing)
Put(b, m, h) ==
    /\ ~aborted
    /\ boxes' = [boxes EXCEPT ![b] = m]
    /\ held' = [held EXCEPT ![b] = h]
    /\ UNCHANGED <<reads, args, arg_predicate, resolved, resolved_slots,
                   box_op, unwindVars, observerVars, binderVars>>

\* maybe<T> m(v)
box_construct(b, v) == Put(b, maybe_of(v), v)

\* m.reset()
box_reset(b) == Put(b, reset(boxes[b]), 0)

\* m.reset(v)
box_reset_value(b, v) == Put(b, reset_value(boxes[b], v), v)

\* m.value(), *m or m-> : the process aborts or the stored value is read
box_read(b, how) ==
    /\ ~aborted
    /\ aborted' = read_aborts(how, boxes[b])
    /\ reads' = Append(reads,
          [how |-> how, held |-> held[b],
           outcome |-> IF read_aborts(how, boxes[b])
                       THEN "aborted" ELSE "returned",
           got |-> IF read_aborts(how, boxes[b])
                   THEN 0 ELSE read_value(how, boxes[b])])
    /\ UNCHANGED <<boxes, held, args, arg_predicate, resolved,
                   resolved_slots, box_op, unwindVars, lifetime,
                   remembered, dest, calls, disposed, consumer, binderVars>>

NextMaybe ==
    \/ \E b \in Boxes, v \in Values : box_construct(b, v)
    \/ \E b \in Boxes : box_reset(b)
    \/ \E b \in Boxes, v \in Values : box_reset_value(b, v)
    \/ /\ Len(reads) < MaxReads
       /\ \E b \in Boxes, how \in Accessors : box_read(b, how)

\* --------------------------------------- maybe<T> as a container
\* maybe::maybe(const maybe& other)
maybe_copy(other) ==
    IF other.is_set THEN [is_set |-> TRUE, storage |-> get(other)]
    ELSE maybe

\* the move constructor without the other.reset()
maybe_move_keeping(other) == [self |-> maybe_copy(other), other |-> other]

\* maybe::maybe(maybe&& other): the object constructed and what is left
\* of other
maybe_move(other) ==
    IF other.is_set
    THEN [self |-> [is_set |-> TRUE, storage |-> get(other)],
          other |-> reset(other)]
    ELSE [self |-> maybe, other |-> other]

\* what a maybe holds, 0 when nothing
holds(m) == IF m.is_set THEN m.storage ELSE 0

\* the operation op on box b, with other box o and value v, leaves bs
Does(op, b, o, v, bs) ==
    /\ ~aborted
    /\ boxes' = bs
    /\ held' = [x \in Boxes |-> holds(bs[x])]
    /\ box_op' = [op |-> op, box |-> b, other |-> o, val |-> v,
                  before |-> boxes]
    /\ UNCHANGED <<reads, args, arg_predicate, resolved, resolved_slots,
                   unwindVars, observerVars, binderVars>>

\* maybe<T> m;
slot_default(b) == Does("default", b, 0, 0, [boxes EXCEPT ![b] = maybe])

\* maybe<T> m(v);
slot_construct(b, v) ==
    Does("construct", b, 0, v, [boxes EXCEPT ![b] = maybe_of(v)])

\* m.reset();
slot_reset(b) == Does("reset", b, 0, 0, [boxes EXCEPT ![b] = reset(@)])

\* m.reset(v);
slot_reset_value(b, v) ==
    Does("reset_value", b, 0, v, [boxes EXCEPT ![b] = reset_value(@, v)])

\* maybe<T> m(other);
slot_copy(b, o) ==
    /\ b /= o
    /\ Does("copy", b, o, 0, [boxes EXCEPT ![b] = maybe_copy(boxes[o])])

\* maybe<T> m(std::move(other));
slot_move(b, o) ==
    /\ b /= o
    /\ Does("move", b, o, 0,
            [boxes EXCEPT ![b] = maybe_move(boxes[o]).self,
                          ![o] = maybe_move(boxes[o]).other])

NextContainer ==
    \/ \E b \in Boxes : slot_default(b)
    \/ \E b \in Boxes, v \in Values : slot_construct(b, v)
    \/ \E b \in Boxes : slot_reset(b)
    \/ \E b \in Boxes, v \in Values : slot_reset_value(b, v)
    \/ \E b, o \in Boxes : slot_copy(b, o)
    \/ \E b, o \in Boxes : slot_move(b, o)

\* ------------------------------------------------ unwinder (rx-util.hpp)
Unwinders == 1..NumUnwinders

\* no unwinder declared yet
InitUnwinders ==
    /\ unwinder = [u \in Unwinders |-> "none"]
    /\ function = [u \in Unwinders |-> FALSE]
    /\ ran = [u \in Unwinders |-> 0]
    /\ dismissals = [u \in Unwinders |-> 0]

\* RXCPP_UNWIND(Name, Function): the function object is a local and the
\* unwinder is constructed on its address, unwinder(Function* functionArg)
RXCPP_UNWIND(u) ==
    /\ ~aborted
    /\ unwinder[u] = "none"
    /\ unwinder' = [unwinder EXCEPT ![u] = "live"]
    /\ function' = [function EXCEPT ![u] = TRUE]
    /\ UNCHANGED <<ran, dismissals, boxes, held, reads, box_op, args,
                   arg_predicate, resolved, resolved_slots, observerVars,
                   binderVars>>

\* dismiss() that leaves the function in place
dismiss_keeping(u) ==
    /\ ~aborted
    /\ unwinder[u] = "live"
    /\ dismissals[u] < MaxDismissals
    /\ dismissals' = [dismissals EXCEPT ![u] = @ + 1]
    /\ UNCHANGED <<unwinder, function, ran, boxes, held, reads, box_op, args,
                   arg_predicate, resolved, resolved_slots, observerVars,
                   binderVars>>

\* unwinder::dismiss
dismiss(u) ==
    /\ ~aborted
    /\ unwinder[u] = "live"
    /\ dismissals[u] < MaxDismissals
    /\ function' = [function EXCEPT ![u] = FALSE]
    /\ dismissals' = [dismissals EXCEPT ![u] = @ + 1]
    /\ UNCHANGED <<unwinder, ran, boxes, held, reads, box_op, args,
                   arg_predicate, resolved, resolved_slots, observerVars,
                   binderVars>>

\* unwinder::~unwinder, at the exit of the scope: the function is called
\* when the pointer is not null; an exception out of it ends in
\* std::unexpected()
unwinder_destroy(u, throws) ==
    /\ ~aborted
    /\ unwinder[u] = "live"
    /\ function[u] \/ ~throws
    /\ unwinder' = [unwinder EXCEPT ![u] = "destroyed"]
    /\ ran' = [ran EXCEPT ![u] = IF function[u] THEN @ + 1 ELSE @]
    /\ aborted' = (function[u] /\ throws)
    /\ UNCHANGED <<function, dismissals, boxes, held, reads, box_op, args,
                   arg_predicate, resolved, resolved_slots, lifetime,
                   remembered, dest, calls, disposed, consumer, binderVars>>

NextUnwind ==
    \/ \E u \in Unwinders : RXCPP_UNWIND(u)
    \/ \E u \in Unwinders : dismiss(u)
    \/ \E u \in Unwinders, throws \in BOOLEAN : unwinder_destroy(u, throws)

\* ------------------------------------------- resolve_arg (rx-util.hpp)
\* An argument type is a base type with or without a reference qualifier;
\* an argument is a value of such a type.
ArgBases == {"int", "tag", "fn"}
ArgQualifiers == {"none", "ref"}
ArgTypes == [base : ArgBases, qual : ArgQualifiers]
ArgValues == 1..NumArgValues
Arguments == [type : ArgTypes, val : ArgValues]

\* std::decay
decay(t) == [t EXCEPT !.qual = "none"]

\* Predicate<Arg>::value for the predicate "is the type p"
Predicate(p, t) == t = [base |-> p, qual |-> "none"]

\* the Default type and its default-constructed value
Default == [base |-> "default", qual |-> "none"]
DefaultValue == [type |-> Default, val |-> 0]

RECURSIVE arg_resolver_n(_, _, _, _)
\* arg_resolver_n<Size, N, Predicate, Default, ArgN...>::type, variadic
arg_resolver_n(Size, N, p, ArgN) ==
    IF ArgN = <<>>
    THEN [n |-> 0 - 1, is_arg |-> FALSE, result_type |-> Default]
    ELSE IF Predicate(p, Head(ArgN))
         THEN [n |-> N, is_arg |-> TRUE, result_type |-> Head(ArgN)]
         ELSE arg_resolver_n(Size, N + 1, p, Tail(ArgN))

\* arg_resolver that hands the argument types on as they were deduced
arg_resolver_undecayed(p, ArgN) == arg_resolver_n(Len(ArgN), 0, p, ArgN)

\* arg_resolver<Predicate, Default, ArgN...>::type, variadic
arg_resolver(p, ArgN) ==
    arg_resolver_n(Len(ArgN), 0, p, [i \in 1..Len(ArgN) |-> decay(ArgN[i])])

RECURSIVE select_arg(_, _, _)
\* detail::select_arg<N, Index>::get
select_arg(N, Index, gan) ==
    IF Index = N THEN Head(gan) ELSE select_arg(N, Index + 1, Tail(gan))

\* resolve_arg<Predicate, Default>(an...), variadic
resolve_arg(p, an) ==
    LET t == arg_resolver(p, [i \in 1..Len(an) |-> an[i].type])
    IN [n |-> t.n, is_arg |-> t.is_arg,
        value |-> IF t.is_arg
                  THEN [type |-> t.result_type,
                        val |-> select_arg(t.n, 0, an).val]
                  ELSE DefaultValue]

Unresolved == [n |-> 0, is_arg |-> FALSE, value |-> DefaultValue,
               done |-> FALSE]

\* resolve_arg not called
InitResolver ==
    /\ args = <<>>
    /\ arg_predicate = "tag"
    /\ resolved = Unresolved
    /\ resolved_slots = Unresolved

RECURSIVE SeqsUpTo(_, _)
\* the sequences over S of length at most n
SeqsUpTo(S, n) ==
    IF n = 0 THEN {<<>>}
    ELSE LET shorter == SeqsUpTo(S, n - 1)
         IN shorter \cup {Append(q, x) : q \in shorter, x \in S}

\* the call returns
resolve ==
    /\ ~resolved.done
    /\ resolved' = [n |-> resolve_arg(arg_predicate, args).n,
                    is_arg |-> resolve_arg(arg_predicate, args).is_arg,
                    value |-> resolve_arg(arg_predicate, args).value,
                    done |-> TRUE]
    /\ UNCHANGED <<args, arg_predicate, resolved_slots, boxes, held, reads,
                   box_op, unwindVars, observerVars, binderVars>>

\* the type that fills the slots no argument was passed for
tag_unresolvable == [base |-> "tag_unresolvable", qual |-> "none"]
Unresolvable == [type |-> tag_unresolvable, val |-> 0]

\* the slots of the build without variadic templates: Arg0 .. Arg5
NumSlots == 6

RECURSIVE arg_resolver_n_slots(_, _, _)
\* arg_resolver_n<N, Predicate, Default, Arg0, .., Arg5>::type, six slots:
\* the specialisation for N tests ArgN and otherwise is prev_type::type,
\* the one for N - 1; the one for -1 is the Default
arg_resolver_n_slots(N, p, Arg) ==
    IF N = 0 - 1
    THEN [n |-> 0 - 1, is_arg |-> FALSE, result_type |-> Default]
    ELSE IF Predicate(p, Arg[N + 1])
         THEN [n |-> N, is_arg |-> TRUE, result_type |-> Arg[N + 1]]
         ELSE arg_resolver_n_slots(N - 1, p, Arg)

\* arg_resolver<Predicate, Default, Arg0 = tag_unresolvable, ..>::type,
\* six slots
arg_resolver_slots(p, ArgN) ==
    arg_resolver_n_slots(NumSlots - 1, p,
        [i \in 1..NumSlots |->
            decay(IF i <= Len(ArgN) THEN ArgN[i] ELSE tag_unresolvable)])

\* resolve_arg<Predicate, Default>(a0, ..), six slots: the overload for
\* the number of arguments passes tag_unresolvable() for the other slots
resolve_arg_slots(p, an) ==
    LET t == arg_resolver_slots(p, [i \in 1..Len(an) |-> an[i].type])
        a == [i \in 1..NumSlots |->
                 IF i <= Len(an) THEN an[i] ELSE Unresolvable]
    IN [n |-> t.n, is_arg |-> t.is_arg,
        value |-> IF t.is_arg
                  THEN [type |-> t.result_type, val |-> a[t.n + 1].val]
                  ELSE DefaultValue]

\* the call returns, in the build without variadic templates
resolve_slots ==
    /\ ~resolved_slots.done
    /\ Len(args) <= NumSlots
    /\ resolved_slots' = [n |-> resolve_arg_slots(arg_predicate, args).n,
           is_arg |-> resolve_arg_slots(arg_predicate, args).is_arg,
           value |-> resolve_arg_slots(arg_predicate, args).value,
           done |-> TRUE]
    /\ UNCHANGED <<args, arg_predicate, resolved, boxes, held, reads,
                   box_op, unwindVars, observerVars, binderVars>>

NextResolve ==
    \/ resolve
    \/ resolve_slots


\* ------------------------------------------------- Binder (cpprx/rx.hpp)
\* An observable is written as the list of stages applied to the source,
\* innermost first; <<>> is the source itself.  Select, Where, Take,
\* DistinctUntilChanged, Subscribe and ForEach are defined outside rx.hpp:
\* the operator factories build the observable of the next stage and keep
\* the callback, Subscribe and ForEach subscribe the chain to the source,
\* which pushes SourceItems through the stages.
Predicates == {"odd", "positive"}
Selectors == {"succ"}
TakeCounts == 1..MaxTake
SourceItems == [i \in 1..(2 * NumSourceItems) |-> (i + 1) \div 2]

Stage(op, arg) == [op |-> op, arg |-> arg]
Select(obj, selector) == Append(obj, Stage("select", selector))
Where(obj, predicate) == Append(obj, Stage("where", predicate))
Take(obj, n) == Append(obj, Stage("take", n))
DistinctUntilChanged(obj) == Append(obj, Stage("distinct_until_changed", 0))

\* a user predicate / selector applied to an item
Test(predicate, x) == IF predicate = "odd" THEN x % 2 = 1 ELSE x > 0
Apply(selector, x) == x + 1

\* state of one activation of a chain: per stage a counter or remembered
\* value (0: none), the items onNext received, the callback invocations,
\* and whether the activation has completed
Activation(obj) ==
    [mem |-> [k \in 1..Len(obj) |-> 0], out |-> <<>>, count |-> 0,
     done |-> FALSE]

RECURSIVE Push(_, _, _, _)
\* item x arrives at stage k of obj
Push(obj, k, x, st) ==
    IF k > Len(obj) THEN [st EXCEPT !.out = Append(@, x)]
    ELSE LET g == obj[k] IN
         CASE g.op = "where" ->
                LET t == [st EXCEPT !.count = @ + 1] IN
                IF Test(g.arg, x) THEN Push(obj, k + 1, x, t) ELSE t
           [] g.op = "select" ->
                Push(obj, k + 1, Apply(g.arg, x),
                     [st EXCEPT !.count = @ + 1])
           [] g.op = "distinct_until_changed" ->
                IF st.mem[k] = 0 \/ x /= st.mem[k]
                THEN Push(obj, k + 1, x, [st EXCEPT !.mem[k] = x])
                ELSE st
           [] g.op = "take" ->
                IF st.mem[k] < g.arg
                THEN LET t == Push(obj, k + 1, x,
                                   [st EXCEPT !.mem[k] = @ + 1])
                     IN IF t.mem[k] = g.arg
                        THEN [t EXCEPT !.done = TRUE] ELSE t
                ELSE [st EXCEPT !.done = TRUE]

RECURSIVE Run(_, _, _, _)
\* the source pushes items[i..] until the activation has completed
Run(obj, items, i, st) ==
    IF i > Len(items) \/ st.done THEN st
    ELSE Run(obj, items, i + 1, Push(obj, 1, items[i], st))

\* Subscribe(obj, onNext)
Subscribe(obj) == Run(obj, SourceItems, 1, Activation(obj))

\* BinderBase::BinderBase / Binder::Binder
Binder(obj) == [obj |-> obj]

\* from(Binder<Obj>) and from(shared_ptr<Observable<T>>)
from(obj) == Binder(obj)

\* the state after from(source)
InitBinder ==
    /\ binders = <<from(<<>>)>>
    /\ invoked = 0
    /\ subscribed = 0
    /\ terminals = 0
    /\ received = <<>>

\* an operator call on binders[i] returned the Binder b
Bound(b) ==
    /\ ~aborted
    /\ binders' = Append(binders, b)
    /\ UNCHANGED <<invoked, subscribed, terminals, received, observerVars,
                   utilVars>>

\* where that tries the predicate on a sample item when the chain is built
where_eager(i, predicate) ==
    /\ ~aborted
    /\ binders' = Append(binders, from(Where(binders[i].obj, predicate)))
    /\ invoked' = invoked + 1
    /\ UNCHANGED <<subscribed, terminals, received, observerVars, utilVars>>

\* select that rewraps the receiver's own source and returns the receiver
select_inplace(i, selector) ==
    /\ ~aborted
    /\ binders' = Append([binders EXCEPT
                             ![i] = from(Select(binders[i].obj, selector))],
                         from(Select(binders[i].obj, selector)))
    /\ UNCHANGED <<invoked, subscribed, terminals, received, observerVars,
                   utilVars>>

\* Binder::select
select(i, selector) == Bound(from(Select(binders[i].obj, selector)))

\* Binder::where
where(i, predicate) == Bound(from(Where(binders[i].obj, predicate)))

\* Binder::take
take(i, n) == Bound(from(Take(binders[i].obj, n)))

\* Binder::distinct_until_changed
distinct_until_changed(i) ==
    Bound(from(DistinctUntilChanged(binders[i].obj)))

\* a terminal call on binders[i] ran the activation st
Terminal(st) ==
    /\ ~aborted
    /\ invoked' = invoked + st.count
    /\ subscribed' = subscribed + 1
    /\ terminals' = terminals + 1
    /\ received' = st.out
    /\ UNCHANGED <<binders, observerVars, utilVars>>

\* Binder::subscribe
subscribe(i) == Terminal(Subscribe(binders[i].obj))

\* Binder::for_each
for_each(i) == Terminal(Subscribe(binders[i].obj))

NextBinder ==
    \/ /\ Len(binders) < MaxBinders
       /\ \E i \in 1..Len(binders), f \in Selectors : select(i, f)
    \/ /\ Len(binders) < MaxBinders
       /\ \E i \in 1..Len(binders), p \in Predicates : where(i, p)
    \/ /\ Len(binders) < MaxBinders
       /\ \E i \in 1..Len(binders), n \in TakeCounts : take(i, n)
    \/ /\ Len(binders) < MaxBinders
       /\ \E i \in 1..Len(binders) : distinct_until_changed(i)
    \/ /\ terminals < MaxTerminals
       /\ \E i \in 1..Len(binders) : subscribe(i)
    \/ /\ terminals < MaxTerminals
       /\ \E i \in 1..Len(binders) : for_each(i)

\* no observer made yet
InitObservers ==
    /\ lifetime = [a \in Activations |-> "none"]
    /\ remembered = [a \in Activations |-> maybe]
    /\ dest = [a \in Activations |-> <<>>]
    /\ calls = [a \in Activations |-> <<>>]
    /\ aborted = FALSE
    /\ disposed = [a \in Activations |-> FALSE]
    /\ consumer = [a \in Activations |-> <<>>]

Init ==
    InitObservers /\ InitBinder /\ InitBoxes /\ InitResolver /\ InitUnwinders

Next ==
    \/ \E a \in Activations : make(a)
    \/ /\ TotalCalls < MaxCalls
       /\ \E a \in Activations, v \in Values, c \in BOOLEAN : on_next(a, v, c)
    \/ /\ TotalCalls < MaxCalls
       /\ \E a \in Activations, e \in Errors : on_error(a, e)
    \/ /\ TotalCalls < MaxCalls
       /\ \E a \in Activations : on_completed(a)
    \/ \E a \in Activations : destroy(a)

Spec == Init /\ [][Next]_vars

\* the Binder alone: chains are built and subscribed
SpecBinder == Init /\ [][NextBinder]_vars

\* one observer, already made
InitOne ==
    /\ lifetime = [a \in Activations |-> IF a = 1 THEN "live" ELSE "none"]
    /\ remembered = [a \in Activations |-> maybe]
    /\ dest = [a \in Activations |-> <<>>]
    /\ calls = [a \in Activations |-> <<>>]
    /\ aborted = FALSE
    /\ disposed = [a \in Activations |-> FALSE]
    /\ consumer = [a \in Activations |-> <<>>]
    /\ InitBinder
    /\ InitBoxes
    /\ InitResolver
    /\ InitUnwinders

\* a call of resolve_arg about to be made
InitResolve ==
    /\ InitObservers
    /\ InitBinder
    /\ InitBoxes
    /\ InitUnwinders
    /\ args \in SeqsUpTo(Arguments, MaxArgs)
    /\ arg_predicate \in {"tag", "fn"}
    /\ resolved = Unresolved
    /\ resolved_slots = Unresolved

\* maybe objects alone
SpecMaybe == Init /\ [][NextMaybe]_vars

\* maybe objects constructed, copied, moved and reset
SpecContainer == Init /\ [][NextContainer]_vars

\* unwinders alone
SpecUnwind == Init /\ [][NextUnwind]_vars

\* resolve_arg alone
SpecResolve == InitResolve /\ [][NextResolve]_vars

\* ------------------------------ single activation and its downstream
\* One observer whose downstream subscriber may throw from on_next, may
\* call back into the observer, and may have its subscription disposed.
NextSubscriber ==
    \/ /\ Len(calls[1]) < MaxDestCalls
       /\ \E v \in Values, c \in BOOLEAN, d \in DestDoes :
             on_next_dest(1, v, c, d)
    \/ /\ Len(calls[1]) < MaxDestCalls
       /\ \E e \in Errors : on_error(1, e)
    \/ /\ Len(calls[1]) < MaxDestCalls
       /\ on_completed(1)
    \/ dispose(1)

SpecSubscriber == InitOne /\ [][NextSubscriber]_vars

\* ------------------------------------------- single activation, on_next
\* One observer, already made, fed on_next only, by an item type whose
\* comparison never throws.
DedupValues == 1..NumDedupValues

InitDedup ==
    /\ lifetime = [a \in Activations |-> IF a = 1 THEN "live" ELSE "none"]
    /\ remembered = [a \in Activations |-> maybe]
    /\ dest = [a \in Activations |-> <<>>]
    /\ calls = [a \in Activations |-> <<>>]
    /\ aborted = FALSE
    /\ disposed = [a \in Activations |-> FALSE]
    /\ consumer = [a \in Activations |-> <<>>]
    /\ InitBinder
    /\ InitBoxes
    /\ InitResolver
    /\ InitUnwinders

NextDedup ==
    /\ Len(calls[1]) < MaxDedupLen
    /\ \E v \in DedupValues : on_next(1, v, FALSE)

SpecDedup == InitDedup /\ [][NextDedup]_vars

\* ------------------------------------------------------------ histories
RECURSIVE ValsOf(_, _)
\* the values of the op entries of a log, in order
ValsOf(log, op) ==
    IF log = <<>> THEN <<>>
    ELSE LET n == Len(log)
             front == ValsOf(SubSeq(log, 1, n - 1), op)
         IN IF log[n].op = op THEN Append(front, log[n].val) ELSE front

NextVals(log) == ValsOf(log, "on_next")

NoRaise(cs) == \A i \in 1..Len(cs) : cs[i].outcome = "returned"
OnlyNexts(cs) == \A i \in 1..Len(cs) : cs[i].op = "on_next"

RECURSIVE Collapse(_, _)
\* s[1..n] with each run of equal neighbours reduced to its first element
Collapse(s, n) ==
    IF n = 0 THEN <<>>
    ELSE IF n = 1 \/ s[n] /= s[n - 1]
         THEN Append(Collapse(s, n - 1), s[n])
         ELSE Collapse(s, n - 1)

\* C1: for on_next calls v1..vn on an observer that started with an empty
\* slot, vi is forwarded iff i = 1 or vi /= v(i-1), so the downstream
\* receives the input with every run of equal values collapsed to its first
\* element, in order.
C1_DedupCollapsesRuns ==
    \A a \in Activations :
        (OnlyNexts(calls[a]) /\ NoRaise(calls[a])) =>
            /\ \A i \in 1..Len(calls[a]) :
                  (calls[a][i].sent = 1) <=>
                      (i = 1 \/ calls[a][i].val /= calls[a][i - 1].val)
            /\ dest[a] = [i \in 1..Len(NextVals(dest[a])) |->
                             Next_(NextVals(dest[a])[i])]
            /\ NextVals(dest[a]) =
                  Collapse(NextVals(calls[a]), Len(calls[a]))

C1_Witness ==
    /\ NextVals(calls[1]) = <<1, 1, 2, 2, 2, 3, 1>>
    /\ NextVals(dest[1]) = <<1, 2, 3, 1>>

Terminals == {"on_error", "on_completed"}
Last(q) == q[Len(q)]

RECURSIVE SentUpTo(_, _)
\* how many notifications the first i calls of cs made on dest
SentUpTo(cs, i) == IF i = 0 THEN 0 ELSE cs[i].sent + SentUpTo(cs, i - 1)

\* C2: a comparison that raises in on_next is caught there and converted:
\* the call returns normally, the downstream receives exactly one on_error
\* for it and no on_next after that on_error.
C2_ComparisonFailureConverted ==
    \A a \in Activations : \A i \in 1..Len(calls[a]) :
        calls[a][i].threw =>
            /\ calls[a][i].outcome = "returned"
            /\ calls[a][i].sent = 1
            /\ dest[a][SentUpTo(calls[a], i)].op = "on_error"
            /\ \A k \in (SentUpTo(calls[a], i) + 1)..Len(dest[a]) :
                  dest[a][k].op /= "on_next"

\* the observer protocol: nothing follows an on_error or on_completed
Protocol(log) ==
    \A i \in 1..Len(log) : log[i].op \in Terminals => i = Len(log)

\* C3: when the calls made on the observer follow the observer protocol,
\* the calls it makes on the downstream observer follow it too: nothing is
\* delivered downstream after an on_error or on_completed.
C3_ProtocolPreserved ==
    \A a \in Activations : Protocol(calls[a]) => Protocol(dest[a])

C3_Witness ==
    \E a \in Activations :
        /\ Len(calls[a]) >= 3
        /\ Protocol(calls[a])
        /\ Last(calls[a]).op \in Terminals
        /\ Len(dest[a]) >= 2
        /\ Last(dest[a]).op \in Terminals

RECURSIVE Alone(_)
\* slot and downstream log of a fresh observer that received the calls cs
\* and no other observer existed
Alone(cs) ==
    IF cs = <<>> THEN [remembered |-> maybe, dest |-> <<>>]
    ELSE LET n == Len(cs)
             before == Alone(SubSeq(cs, 1, n - 1))
             c == cs[n]
             r == CASE c.op = "on_next" ->
                         on_next_result(before.remembered, c.val, c.threw)
                    [] c.op = "on_error" ->
                         on_error_result(before.remembered, c.val)
                    [] c.op = "on_completed" ->
                         on_completed_result(before.remembered)
         IN [remembered |-> r.remembered, dest |-> before.dest \o r.sent]

\* C4: operator state is per activation: every observer starts with an
\* empty slot and, under every interleaving of the calls on the two
\* observers, the slot and the downstream output of each are what its own
\* calls produce when it runs alone.
C4_ActivationsIndependent ==
    \A a \in Activations :
        /\ lifetime[a] = "live" =>
              remembered[a] = Alone(calls[a]).remembered
        /\ dest[a] = Alone(calls[a]).dest

C4_Witness ==
    /\ lifetime[1] = "live" /\ lifetime[2] = "live"
    /\ Len(calls[1]) >= 2 /\ Len(calls[2]) >= 1
    /\ remembered[1].is_set /\ remembered[2].is_set
    /\ remembered[1].storage /= remembered[2].storage
    /\ \E i \in 1..Len(calls[1]) :
          calls[1][i].op = "on_next" /\ calls[1][i].sent = 0

\* C5: after on_error or on_completed has been handled, the remembered
\* slot is empty.
C5_SlotEmptyAfterTerminal ==
    \A a \in Activations :
        (lifetime[a] = "live" /\ calls[a] /= <<>>
            /\ Last(calls[a]).op \in Terminals) => empty(remembered[a])

\* C5 (amended): on_error and on_completed leave the remembered slot as it
\* was: after them it still holds the last value forwarded downstream and
\* is empty only when no on_next was forwarded; the slot is emptied when
\* the observer is destroyed.
C5_SlotKeptUntilDestroyed ==
    \A a \in Activations :
        /\ (lifetime[a] = "live" /\ calls[a] /= <<>>
               /\ Last(calls[a]).op \in Terminals) =>
              IF NextVals(dest[a]) = <<>>
              THEN empty(remembered[a])
              ELSE /\ remembered[a].is_set
                   /\ remembered[a].storage = Last(NextVals(dest[a]))
        /\ lifetime[a] = "destroyed" => empty(remembered[a])

C5_Witness ==
    \E a \in Activations :
        /\ lifetime[a] = "live"
        /\ Len(calls[a]) >= 2
        /\ Last(calls[a]).op \in Terminals
        /\ remembered[a].is_set

\* C6: a terminal passes through unchanged: each on_error(e) makes exactly
\* one downstream call, on_error with the same e, each on_completed exactly
\* one on_completed, and the call returns.
C6_TerminalsPassThrough ==
    [][\A a \in Activations :
          (Len(calls'[a]) = Len(calls[a]) + 1
              /\ Last(calls'[a]).op \in Terminals) =>
             /\ dest'[a] = Append(dest[a], [op |-> Last(calls'[a]).op,
                                            val |-> Last(calls'[a]).val])
             /\ Last(calls'[a]).outcome = "returned"]_vars

C6_Witness ==
    \E a \in Activations :
        /\ Len(calls[a]) >= 2
        /\ calls[a][1].op = "on_next"
        /\ Last(calls[a]).op = "on_error"
        /\ Last(calls[a]).val = NumErrors
        /\ Last(dest[a]) = Error_(NumErrors)

\* was call i of cs an on_next that was forwarded downstream
Forwarded(cs, i) == cs[i].op = "on_next" /\ cs[i].sent = 1

\* C7: the comparison is with the value forwarded last, not with older
\* history: an on_next whose value was forwarded earlier is forwarded
\* again when the last value forwarded before it is a different one.
C7_OnlyPreviousCompared ==
    \A a \in Activations : \A i, j, k \in 1..Len(calls[a]) :
        (/\ i < j /\ j < k
         /\ Forwarded(calls[a], i) /\ Forwarded(calls[a], j)
         /\ calls[a][k].op = "on_next" /\ ~calls[a][k].threw
         /\ calls[a][k].val = calls[a][i].val
         /\ calls[a][j].val /= calls[a][k].val
         /\ \A l \in (j + 1)..(k - 1) : ~Forwarded(calls[a], l))
        => Forwarded(calls[a], k)

C7_Witness ==
    \E a \in Activations :
        /\ NextVals(calls[a]) = <<1, 2, 1>>
        /\ NextVals(dest[a]) = <<1, 2, 1>>

\* the position of the first on_next among the calls cs, 0 when none
FirstNext(cs) ==
    IF \E i \in 1..Len(cs) : cs[i].op = "on_next"
    THEN CHOOSE i \in 1..Len(cs) :
            /\ cs[i].op = "on_next"
            /\ \A j \in 1..(i - 1) : cs[j].op /= "on_next"
    ELSE 0

\* C8: the first on_next(v) of an activation is forwarded whatever v is
\* (no comparison is made, so none can throw), and the input [x] alone
\* yields the output [x].
C8_FirstValueForwarded ==
    \A a \in Activations :
        LET f == FirstNext(calls[a]) IN
        /\ f > 0 =>
              /\ calls[a][f].sent = 1
              /\ calls[a][f].outcome = "returned"
              /\ ~calls[a][f].threw
              /\ NextVals(dest[a])[1] = calls[a][f].val
        /\ (Len(calls[a]) = 1 /\ f = 1) =>
              dest[a] = <<Next_(calls[a][1].val)>>

C8_Witness ==
    \E a \in Activations :
        /\ Len(calls[a]) = 1
        /\ calls[a][1].op = "on_next"
        /\ calls[a][1].val = NumValues
        /\ dest[a] = <<Next_(NumValues)>>

\* C9: when on_completed is the first call on the observer, the downstream
\* has received exactly one on_completed, no on_next and no on_error.
C9_EmptyCompletes ==
    \A a \in Activations :
        (Len(calls[a]) = 1 /\ calls[a][1].op = "on_completed") =>
            dest[a] = <<Completed_>>

C9_Witness ==
    \E a \in Activations :
        /\ Len(calls[a]) = 1
        /\ calls[a][1].op = "on_completed"
        /\ remembered[a] = maybe
        /\ Len(dest[a]) = 1

\* does the chain obj hold a stage of kind op
HasStage(obj, op) == \E k \in 1..Len(obj) : obj[k].op = op

\* C10: building a chain with the Binder operators, of any length, without
\* a subscribe or for_each call invokes no user predicate or selector and
\* subscribes to no source.
C10_ChainBuildingIsLazy ==
    terminals = 0 => (invoked = 0 /\ subscribed = 0 /\ received = <<>>)

C10_Witness ==
    /\ terminals = 0
    /\ \E i \in 1..Len(binders) :
          /\ Len(binders[i].obj) >= 3
          /\ HasStage(binders[i].obj, "where")
          /\ HasStage(binders[i].obj, "select")

\* the observable o2 is o1 with one more stage applied
Extends(o2, o1) == Len(o2) = Len(o1) + 1 /\ SubSeq(o2, 1, Len(o1)) = o1

\* C11: every Binder operator call returns a new Binder around a new
\* wrapped source (the receiver's source with one more stage) and leaves
\* every existing Binder, the receiver included, as it was; terminal calls
\* change no Binder either.
C11_OperatorsReturnNewBinder ==
    [][/\ Len(binders') >= Len(binders)
       /\ SubSeq(binders', 1, Len(binders)) = binders
       /\ Len(binders') > Len(binders) =>
             /\ Len(binders') = Len(binders) + 1
             /\ \E i \in 1..Len(binders) :
                   Extends(Last(binders').obj, binders[i].obj)]_vars

C11_Witness ==
    /\ \E k, i, j \in 1..Len(binders) :
          /\ k < i /\ i < j
          /\ Extends(binders[i].obj, binders[k].obj)
          /\ Extends(binders[j].obj, binders[k].obj)
          /\ binders[i] /= binders[j]
    /\ \E d \in 1..Len(binders) : Len(binders[d].obj) >= 2

\* C12: once the subscription of an activation is disposed, no on_next,
\* on_error or on_completed of that activation reaches the consumer, also
\* when the source goes on calling the observer.
C12_NothingAfterDispose ==
    [][\A a \in Activations :
          disposed[a] => consumer'[a] = consumer[a]]_vars

C12_Witness ==
    /\ disposed[1]
    /\ Len(consumer[1]) = 1
    /\ Len(dest[1]) = 2
    /\ Len(calls[1]) = 2

\* C13: between notifications the remembered slot of a live observer is
\* empty iff no on_next has been forwarded downstream, and otherwise holds
\* the value of the most recent on_next forwarded downstream.
C13_SlotHoldsLastForwarded ==
    \A a \in Activations :
        lifetime[a] = "live" =>
            IF NextVals(dest[a]) = <<>>
            THEN empty(remembered[a])
            ELSE /\ ~empty(remembered[a])
                 /\ size(remembered[a]) = 1
                 /\ value(remembered[a]) = Last(NextVals(dest[a]))

C13_Witness ==
    \E a \in Activations :
        /\ lifetime[a] = "live"
        /\ NextVals(calls[a]) = <<1, 2, 2>>
        /\ NextVals(dest[a]) = <<1, 2>>
        /\ remembered[a] = [is_set |-> TRUE, storage |-> 2]

\* C14: on_next never reads the remembered value while the slot is empty:
\* no sequence of on_next, on_error and on_completed calls reaches abort().
C14_NoAbort ==
    /\ ~aborted
    /\ \A a \in Activations : \A i \in 1..Len(calls[a]) :
          calls[a][i].outcome /= "aborted"

C14_Witness ==
    \E a \in Activations :
        /\ Len(calls[a]) = 3
        /\ calls[a][1].op \in Terminals
        /\ calls[a][2].op = "on_next" /\ calls[a][2].sent = 1
        /\ calls[a][3].op = "on_next" /\ calls[a][3].sent = 0
        /\ ~aborted

\* C18: on_next remembers the value before it calls the downstream: when
\* the downstream on_next throws, or calls on_next again with the same
\* value, the value is already remembered, so the slot holds it after the
\* call and an equal value that follows (or re-enters) is suppressed.
C18_RememberedBeforeForward ==
    \A i \in 1..Len(calls[1]) :
        LET c == calls[1][i] IN
        /\ (c.op = "on_next" /\ c.dest_did.does = "raises") =>
              /\ c.outcome = "raised" /\ c.sent = 1
              /\ i = Len(calls[1]) =>
                    remembered[1] = [is_set |-> TRUE, storage |-> c.val]
              /\ (i < Len(calls[1]) /\ calls[1][i + 1].op = "on_next"
                     /\ calls[1][i + 1].val = c.val) =>
                    calls[1][i + 1].sent = 0
        /\ (c.op = "on_next" /\ c.dest_did = DestReenters(c.val)) =>
              /\ c.outcome = "returned" /\ c.sent = 1
              /\ i = Len(calls[1]) =>
                    remembered[1] = [is_set |-> TRUE, storage |-> c.val]

C18_Witness ==
    /\ Len(calls[1]) = 2
    /\ calls[1][1].op = "on_next" /\ calls[1][1].dest_did = DestRaises
    /\ calls[1][2].op = "on_next" /\ calls[1][2].val = calls[1][1].val
    /\ ~calls[1][2].threw /\ calls[1][2].sent = 0
    /\ Len(dest[1]) = 1

\* the on_next values the downstream had been sent before call i of cs
ForwardedBefore(cs, d, i) == NextVals(SubSeq(d, 1, SentUpTo(cs, i - 1)))

\* C19: the observer keeps no terminated flag: after an on_error or
\* on_completed an on_next(v) is still forwarded exactly when nothing is
\* remembered or v differs from the value forwarded last, and a further
\* on_error or on_completed is forwarded downstream again.
C19_NoTerminatedFlag ==
    \A a \in Activations : \A i \in 1..Len(calls[a]) :
        LET c == calls[a][i]
            before == ForwardedBefore(calls[a], dest[a], i)
        IN (\E j \in 1..(i - 1) : calls[a][j].op \in Terminals) =>
              /\ c.op \in Terminals =>
                    /\ c.sent = 1
                    /\ dest[a][SentUpTo(calls[a], i)] =
                          [op |-> c.op, val |-> c.val]
              /\ (c.op = "on_next" /\ ~c.threw) =>
                    (c.sent = 1 <=>
                        (before = <<>> \/ c.val /= Last(before)))

C19_Witness ==
    \E a \in Activations :
        /\ Len(calls[a]) = 3
        /\ calls[a][1].op = "on_next" /\ calls[a][1].val = 1
        /\ calls[a][2].op \in Terminals
        /\ calls[a][3].op = "on_next" /\ calls[a][3].val = 2
        /\ Len(dest[a]) = 3

\* C20: when the comparison in on_next raises, the remembered value is
\* left unchanged and nothing is forwarded downstream for that item.
C20_RaiseLeavesSlot ==
    [][\A a \in Activations :
          (Len(calls'[a]) = Len(calls[a]) + 1 /\ Last(calls'[a]).threw) =>
             /\ remembered'[a] = remembered[a]
             /\ dest'[a] = dest[a]
             /\ Last(calls'[a]).sent = 0]_vars

C20_Witness ==
    \E a \in Activations :
        /\ Len(calls[a]) = 2
        /\ calls[a][2].threw /\ calls[a][2].val = 2
        /\ remembered[a] = [is_set |-> TRUE, storage |-> 1]
        /\ dest[a] = <<Next_(1)>>

\* C15: reading the value of an empty maybe through value(), operator* or
\* operator-> aborts the process (nothing is returned, nothing runs after
\* it); reading a maybe that holds a value returns that value and does not
\* abort.
C15_EmptyReadAborts ==
    /\ \A k \in 1..Len(reads) :
          IF reads[k].held = 0
          THEN /\ reads[k].outcome = "aborted"
               /\ k = Len(reads)
               /\ aborted
          ELSE /\ reads[k].outcome = "returned"
               /\ reads[k].got = reads[k].held
    /\ aborted => (reads /= <<>> /\ Last(reads).outcome = "aborted")

C15_Witness ==
    /\ Len(reads) = 2
    /\ reads[1].outcome = "returned" /\ reads[1].got = NumValues
    /\ reads[2].outcome = "aborted"
    /\ aborted

\* the positions of the arguments whose decayed type satisfies p
Matching(p, an) ==
    {i \in 1..Len(an) : an[i].type.base = p}

\* C17: resolve_arg returns the first of the arguments passed whose decayed
\* type satisfies the predicate, with is_arg true and n its position
\* (counted from 0); when no argument satisfies it, also when none is
\* passed, it returns a default-constructed Default with is_arg false and
\* n = -1.
C17_ResolveArgFirstMatch ==
    resolved.done =>
        LET S == Matching(arg_predicate, args) IN
        IF S = {}
        THEN /\ ~resolved.is_arg
             /\ resolved.n = 0 - 1
             /\ resolved.value = DefaultValue
        ELSE LET first == CHOOSE i \in S : \A j \in S : i <= j IN
             /\ resolved.is_arg
             /\ resolved.n = first - 1
             /\ resolved.value.val = args[first].val
             /\ resolved.value.type = decay(args[first].type)

C17_Witness ==
    /\ resolved.done
    /\ Len(args) = 3
    /\ args[1].type.base /= arg_predicate
    /\ args[2].type = [base |-> arg_predicate, qual |-> "ref"]
    /\ args[3].type.base = arg_predicate
    /\ args[3].val /= args[2].val
    /\ resolved.n = 1

\* C21: the variadic and the six-slot resolve_arg, called with the same
\* arguments and the same predicate, return the same thing: the same
\* position n, the same is_arg and the same value, also when more than one
\* argument satisfies the predicate.
C21_ResolversAgree ==
    (resolved.done /\ resolved_slots.done) =>
        /\ resolved_slots.n = resolved.n
        /\ resolved_slots.is_arg = resolved.is_arg
        /\ resolved_slots.value = resolved.value

\* C22: a maybe is a one-slot container under reset(), reset(v), copy and
\* move construction: size() is 0 or 1 and empty() holds exactly when
\* size() is 0; after reset() it is empty, and a reset() of an empty maybe
\* changes nothing; after reset(v) it holds v whatever it held; a copy
\* leaves the original as it was; a moved-from maybe is empty.
C22_OneSlotContainer ==
    LET b == box_op.box
        o == box_op.other
        was == box_op.before
    IN /\ \A x \in Boxes :
             /\ size(boxes[x]) \in {0, 1}
             /\ empty(boxes[x]) <=> (size(boxes[x]) = 0)
       /\ box_op.op = "reset" =>
             /\ empty(boxes[b])
             /\ empty(was[b]) => boxes = was
       /\ box_op.op = "reset_value" =>
             /\ size(boxes[b]) = 1
             /\ ~value_aborts(boxes[b])
             /\ value(boxes[b]) = box_op.val
       /\ box_op.op = "copy" =>
             /\ boxes[o] = was[o]
             /\ holds(boxes[b]) = holds(was[o])
       /\ box_op.op = "move" =>
             /\ empty(boxes[o])
             /\ holds(boxes[b]) = holds(was[o])

C22_Witness ==
    /\ box_op.op = "move"
    /\ box_op.before[box_op.other] = maybe_of(NumValues)
    /\ box_op.before[box_op.box] = maybe_of(1)
    /\ empty(boxes[box_op.other])
    /\ boxes[box_op.box] = maybe_of(NumValues)

\* C23: the function of an unwinder runs only when the unwinder is
\* destroyed, and then exactly once, unless dismiss() was called before;
\* after one dismiss() or several the function never runs.
C23_UnwinderRunsOnceUnlessDismissed ==
    \A u \in Unwinders :
        /\ ran[u] <= 1
        /\ unwinder[u] /= "destroyed" => ran[u] = 0
        /\ unwinder[u] = "destroyed" =>
              ran[u] = (IF dismissals[u] = 0 THEN 1 ELSE 0)
        /\ (unwinder[u] = "live" /\ dismissals[u] >= 1) => ~function[u]

C23_Witness ==
    \E u, w, x \in Unwinders :
        /\ unwinder[u] = "destroyed" /\ dismissals[u] = 0 /\ ran[u] = 1
        /\ unwinder[w] = "destroyed" /\ dismissals[w] = 2 /\ ran[w] = 0
        /\ unwinder[x] = "destroyed" /\ dismissals[x] = 1 /\ ran[x] = 0

====
